---- MODULE Spec2Model ----
(***************************************************************************)
(* A model of sdf::Joint (src/src/Joint.cc): the joint's private fields,   *)
(* the frame graphs it can hold, Joint::Load and the accessors that change *)
(* or read the frame graph.                                                *)
(*                                                                         *)
(* The fields `axis' and `sdf' of JointPrivate are left out: no property   *)
(* below reads them and nothing that is modelled depends on them.          *)
(*                                                                         *)
(* Strings that are only compared for equality are TLA+ strings.  The      *)
(* joint type string is converted character by character (std::tolower),   *)
(* so it is a sequence of one-character strings.                           *)
(*                                                                         *)
(* Poses are planar rigid transforms whose rotation is a multiple of a     *)
(* quarter turn: [x, y, q].  Matrix4d is the homogeneous matrix of such a  *)
(* transform, [c, s, x, y] with c = cos, s = sin of the rotation.          *)
(***************************************************************************)
EXTENDS Integers, Sequences, FiniteSets

VARIABLES
  parentLinkName,  \* JointPrivate::parentLinkName
  childLinkName,   \* JointPrivate::childLinkName
  type,            \* JointPrivate::type
  pose,            \* JointPrivate::pose
  poseFrame,       \* JointPrivate::poseFrame
  frameGraph,      \* JointPrivate::frameGraph: which graph the joint holds
  frameVertexId,   \* JointPrivate::frameVertexId
  graphs,          \* the contents of the frame graphs, by handle
  call,            \* the last call made on the joint and what it returned
  noGraphLoad,     \* history: the last Load that passed the kind check had no graph
  aborted          \* the process has aborted inside Load

vars == <<parentLinkName, childLinkName, type, pose, poseFrame, frameGraph,
          frameVertexId, graphs, call, noGraphLoad, aborted>>

-----------------------------------------------------------------------------
(* Bounds and input domains *)

\* No Load is started on a graph that already has this many vertices.
MaxVertices == 2

Names == {"a", "b"}

\* Pose3d values
PoseZero == [x |-> 0, y |-> 0, q |-> 0]
PoseA == [x |-> 1, y |-> 0, q |-> 1]
Poses == {PoseZero, PoseA}

-----------------------------------------------------------------------------
(* ignition::math: Pose3d -> Matrix4d, matrix product and inverse *)

CosQ(q) == CASE q = 0 -> 1 [] q = 1 -> 0 [] q = 2 -> -1 [] OTHER -> 0
SinQ(q) == CASE q = 0 -> 0 [] q = 1 -> 1 [] q = 2 -> 0 [] OTHER -> -1

\* Matrix4d(const Pose3d &)
Matrix4d(p) == [c |-> CosQ(p.q), s |-> SinQ(p.q), x |-> p.x, y |-> p.y]

\* Matrix4d::Identity
MatIdentity == [c |-> 1, s |-> 0, x |-> 0, y |-> 0]

\* Matrix4d::operator*
MatMul(m, n) ==
  [c |-> m.c * n.c - m.s * n.s,
   s |-> m.s * n.c + m.c * n.s,
   x |-> m.c * n.x - m.s * n.y + m.x,
   y |-> m.s * n.x + m.c * n.y + m.y]

\* Matrix4d::Inverse of a rigid transform
MatInverse(m) ==
  [c |-> m.c,
   s |-> 0 - m.s,
   x |-> 0 - (m.c * m.x + m.s * m.y),
   y |-> m.s * m.x - m.c * m.y]

\* Matrix4d::Pose
MatPose(m) ==
  [x |-> m.x, y |-> m.y,
   q |-> CASE m.c = 1 -> 0 [] m.s = 1 -> 1 [] m.c = -1 -> 2 [] OTHER -> 3]

-----------------------------------------------------------------------------
(* The frame graph, ignition::math::graph::Graph<Matrix4d, int>.           *)
(* Vertex ids are handed out from 0 in insertion order and never reused:   *)
(* the vertex with id i is verts[i + 1].                                   *)

EmptyGraph == [verts |-> <<>>, edges |-> <<>>]

VertexIds(G) == {i - 1 : i \in DOMAIN G.verts}

HasVertex(G, id) == id \in VertexIds(G)

\* Graph::AddVertex(name, data): the graph with the vertex added
AddVertex(G, name, data) ==
  [G EXCEPT !.verts = Append(@, [name |-> name, data |-> data])]

\* the id AddVertex gives the vertex it adds
NextVertexId(G) == Len(G.verts)

\* Graph::AddEdge({from, to}, data): no change when a vertex is absent
AddEdge(G, from, to, data) ==
  IF HasVertex(G, from) /\ HasVertex(G, to)
  THEN [G EXCEPT !.edges = Append(@, [from |-> from, to |-> to, data |-> data])]
  ELSE G

\* Graph::Vertices(name): the ids of the vertices of that name (a std::map
\* keyed by id, so begin() is the least id: the first inserted)
Vertices(G, name) == {id \in VertexIds(G) : G.verts[id + 1].name = name}

\* begin()->first of a non-empty std::map keyed by vertex id
First(ids) == CHOOSE i \in ids : \A j \in ids : i <= j

\* Graph::VertexFromId(id)
VertexFromId(G, id) == G.verts[id + 1]

\* Vertex::SetName on the vertex of that id
SetVertexName(G, id, name) == [G EXCEPT !.verts[id + 1].name = name]

\* Vertex::Data() = data on the vertex of that id
SetVertexData(G, id, data) == [G EXCEPT !.verts[id + 1].data = data]

-----------------------------------------------------------------------------
(* The pose resolver, sdf::poseInFrame(src, dst, graph) of Utils.cc.       *)

PoseResult(p) == [status |-> "Pose", pose |-> p]
PoseFailure(why) == [status |-> why, pose |-> PoseZero]

\* the transform applied when edge e is followed towards vertex `to':
\* the payload of `to' when the traversal agrees with the edge's sign,
\* its inverse otherwise
EdgeTransform(G, e, to) ==
  LET sign == IF e.to = to THEN e.data ELSE 0 - e.data
      data == VertexFromId(G, to).data
  IN  IF sign = 1 THEN data ELSE MatInverse(data)

\* the far end of edge e seen from vertex v
OtherEnd(e, v) == IF e.from = v THEN e.to ELSE e.from

\* enqueue the unvisited neighbours of `head', edges i .. Len(G.edges)
RECURSIVE Expand(_, _, _, _)
Expand(G, i, head, st) ==
  IF i > Len(G.edges) THEN st
  ELSE LET e == G.edges[i]
           touches == e.from = head.v \/ e.to = head.v
           to == OtherEnd(e, head.v)
       IN  IF touches /\ to \notin st.visited
           THEN Expand(G, i + 1, head,
                  [queue |-> Append(st.queue,
                               [v |-> to,
                                m |-> MatMul(head.m, EdgeTransform(G, e, to))]),
                   visited |-> st.visited \cup {to}])
           ELSE Expand(G, i + 1, head, st)

\* breadth-first search for `target'; the composed transform, or NoPath
RECURSIVE Bfs(_, _, _)
Bfs(G, st, target) ==
  IF st.queue = <<>> THEN PoseFailure("NoPath")
  ELSE LET head == Head(st.queue)
       IN  IF head.v = target THEN PoseResult(MatPose(head.m))
           ELSE Bfs(G, Expand(G, 1, head,
                              [queue |-> Tail(st.queue), visited |-> st.visited]),
                    target)

poseInFrame(src, dst, G) ==
  LET srcVertices == Vertices(G, src)
      dstVertices == Vertices(G, dst)
  IN  IF srcVertices = {} \/ dstVertices = {} THEN PoseFailure("NotFound")
      ELSE IF src = dst THEN PoseResult(MatPose(MatIdentity))
      ELSE Bfs(G, [queue |-> <<[v |-> First(srcVertices), m |-> MatIdentity]>>,
                   visited |-> {First(srcVertices)}],
               First(dstVertices))

-----------------------------------------------------------------------------
(* Joint type strings and their classification *)

UpperCase == <<"A", "B", "C", "D", "E", "F", "G", "H", "I", "J", "K", "L", "M",
               "N", "O", "P", "Q", "R", "S", "T", "U", "V", "W", "X", "Y", "Z">>
LowerCase == <<"a", "b", "c", "d", "e", "f", "g", "h", "i", "j", "k", "l", "m",
               "n", "o", "p", "q", "r", "s", "t", "u", "v", "w", "x", "y", "z">>

\* the lower-case letter of every upper-case letter
LowerOf ==
  [c \in {UpperCase[i] : i \in DOMAIN UpperCase} |->
     LowerCase[CHOOSE i \in DOMAIN UpperCase : UpperCase[i] = c]]

\* std::tolower on one character
ToLower(c) == IF c \in DOMAIN LowerOf THEN LowerOf[c] ELSE c

\* std::transform(begin, end, begin, tolower)
LowerString(s) == [i \in DOMAIN s |-> ToLower(s[i])]

\* the type names Load compares with, in the order of its comparisons
JointTypeNames ==
  << [name |-> <<"b", "a", "l", "l">>, type |-> "BALL"],
     [name |-> <<"c", "o", "n", "t", "i", "n", "u", "o", "u", "s">>,
      type |-> "CONTINUOUS"],
     [name |-> <<"f", "i", "x", "e", "d">>, type |-> "FIXED"],
     [name |-> <<"g", "e", "a", "r", "b", "o", "x">>, type |-> "GEARBOX"],
     [name |-> <<"p", "r", "i", "s", "m", "a", "t", "i", "c">>,
      type |-> "PRISMATIC"],
     [name |-> <<"r", "e", "v", "o", "l", "u", "t", "e">>, type |-> "REVOLUTE"],
     [name |-> <<"r", "e", "v", "o", "l", "u", "t", "e", "2">>,
      type |-> "REVOLUTE2"],
     [name |-> <<"s", "c", "r", "e", "w">>, type |-> "SCREW"],
     [name |-> <<"u", "n", "i", "v", "e", "r", "s", "a", "l">>,
      type |-> "UNIVERSAL"] >>

\* the enumerated joint types, without JointType::INVALID
ValidJointTypes == {JointTypeNames[i].type : i \in DOMAIN JointTypeNames}

\* the text Load compares with the type names
MutTypeText(s) == s
TypeText(s) == LowerString(s)

\* the if / else-if chain of Load: the type of the first name equal to the
\* text, JointType::INVALID when there is none
ClassifyType(s) ==
  LET text == TypeText(s)
      hits == {i \in DOMAIN JointTypeNames : JointTypeNames[i].name = text}
  IN  IF hits = {} THEN "INVALID" ELSE JointTypeNames[First(hits)].type

\* type strings given to Load: two that match a type name after lower-casing,
\* one that is a type name already, two that match none
TypeStrings ==
  { <<"B", "a", "l", "L">>,
    <<"R", "E", "V", "O", "L", "U", "T", "E">>,
    <<"r", "e", "v", "o", "l", "u", "t", "e", "2">>,
    <<"R", "e", "v", "o", "l", "t">>,
    <<>> }

-----------------------------------------------------------------------------
(* Errors *)

Error(code, message) == [code |-> code, message |-> message, text |-> <<>>]

\* the error that carries the offending (lower-cased) type text
TypeError(text) ==
  [code |-> "ATTRIBUTE_INVALID", message |-> "Joint type is invalid",
   text |-> text]

ErrorCodes(errors) == {errors[i].code : i \in DOMAIN errors}

-----------------------------------------------------------------------------
(* The elements given to Load.  An attribute or child element is what       *)
(* Element::Get<std::string>(key, "") returns: the value and whether it was *)
(* set.                                                                     *)

Absent == [value |-> "", present |-> FALSE]
Present(v) == [value |-> v, present |-> TRUE]

NoPose == [present |-> FALSE, value |-> PoseZero, frame |-> ""]
PoseElement(p, f) == [present |-> TRUE, value |-> p, frame |-> f]

NoType == [value |-> <<>>, present |-> FALSE]

TypeAttributes(strings) ==
  {NoType} \cup {[value |-> t, present |-> TRUE] : t \in strings}

\* an element that is not a <joint>
LinkElement ==
  [kind |-> "link", name |-> Present("a"), parent |-> Absent, child |-> Absent,
   pose |-> NoPose, type |-> NoType]

\* the elements of the specification Spec: every way the name, the child
\* and the pose frame can be given, with one pose and one type string
Elements ==
  [kind : {"joint"},
   name : {Absent, Present("b")},
   parent : {Present("a")},
   child : {Absent, Present("b")},
   pose : {NoPose, PoseElement(PoseZero, ""), PoseElement(PoseZero, "a")},
   type : TypeAttributes({<<"R", "e", "v", "o", "l", "t">>}) \ {NoType}]
  \cup {LinkElement}

\* the elements of the specification PoseSpec: every way the pose can be
\* given, with one name, parent, child and type string
PoseElements ==
  [kind : {"joint"},
   name : {Present("b")},
   parent : {Present("a")},
   child : {Present("a")},
   pose : {NoPose, PoseElement(PoseA, ""), PoseElement(PoseZero, "b")},
   type : TypeAttributes({<<"B", "a", "l", "L">>}) \ {NoType}]
  \cup {LinkElement}

\* the elements of the specification TypeSpec: every type string, and
\* every way the parent can be given
TypeElements ==
  [kind : {"joint"},
   name : {Present("a")},
   parent : {Absent, Present("a")},
   child : {Present("b")},
   pose : {NoPose},
   type : TypeAttributes(TypeStrings)]
  \cup {LinkElement}

\* the frame graph handles: the graph the constructor makes, and the graph
\* of the document, which the caller shares with the joint
OwnGraph == "own"
DocGraph == "doc"
NullGraph == "null"
GraphArgs == {DocGraph, NullGraph}

-----------------------------------------------------------------------------
(* The joint *)

\* Joint::Name()
Name == VertexFromId(graphs[frameGraph], frameVertexId).name

\* Joint::Type(), Joint::Pose(), Joint::PoseFrame()
Type == type
Pose == pose
PoseFrame == poseFrame

\* no element: the calls other than Load have none
NoElement ==
  [kind |-> "", name |-> Absent, parent |-> Absent, child |-> Absent,
   pose |-> NoPose, type |-> NoType]

\* what `call' holds after a call of `op': the element, the frame graph and
\* the diagnostics of a Load, what SetPoseFrame returned, the outcome of a
\* PoseInFrame
Call(op) ==
  [op |-> op, element |-> NoElement, graph |-> NullGraph, errors |-> <<>>,
   ok |-> TRUE, result |-> PoseFailure("None")]

\* the document's frame graph before the joint is loaded: frames other
\* entities have registered
InitDocGraphs ==
  {EmptyGraph} \cup {AddVertex(EmptyGraph, n, MatIdentity) : n \in Names}

\* Joint::Joint() and JointPrivate's member initializers
Init ==
  /\ parentLinkName = ""
  /\ childLinkName = ""
  /\ type = "INVALID"
  /\ pose = PoseZero
  /\ poseFrame = ""
  /\ frameGraph = OwnGraph
  /\ frameVertexId = NextVertexId(EmptyGraph)
  /\ \E D \in InitDocGraphs :
       graphs = [own |-> AddVertex(EmptyGraph, "", MatIdentity), doc |-> D]
  /\ call = Call("Joint")
  /\ noGraphLoad = FALSE
  /\ aborted = FALSE

\* the check of the element's kind
MutKindMatches(e) == TRUE
KindMatches(e) == e.kind = "joint"

\* sdf::loadName of Utils.cc: the name read, and whether it was set
loadName(e) == e.name

\* sdf::loadPose of Utils.cc: the pose and frame are written only when the
\* element has a pose
loadPose(e, oldPose, oldFrame) ==
  IF e.pose.present
  THEN [pose |-> e.pose.value, frame |-> e.pose.frame]
  ELSE [pose |-> oldPose, frame |-> oldFrame]

\* the pose frame Load keeps: the child link name when the frame is empty
MutDefaultPoseFrame(frame, child) == frame
DefaultPoseFrame(frame, child) == IF frame = "" THEN child ELSE frame

\* Load up to the frame graph: the joint name read, the new values of the
\* fields and the errors so far
ReadElement(e) ==
  LET namePair == loadName(e)
      nameErrors ==
        IF namePair.present THEN <<>>
        ELSE <<Error("ATTRIBUTE_MISSING",
                     "A joint name is required, but the name is not set.")>>
      parent == IF e.parent.present THEN e.parent.value ELSE parentLinkName
      parentErrors ==
        IF e.parent.present THEN <<>>
        ELSE <<Error("ELEMENT_MISSING", "The parent element is missing.")>>
      child == IF e.child.present THEN e.child.value ELSE childLinkName
      childErrors ==
        IF e.child.present THEN <<>>
        ELSE <<Error("ELEMENT_MISSING", "The child element is missing.")>>
      loaded == loadPose(e, pose, poseFrame)
      classified == ClassifyType(e.type.value)
      newType == IF e.type.present THEN classified ELSE type
      typeErrors ==
        IF ~e.type.present
        THEN <<Error("ATTRIBUTE_MISSING",
                     "A joint type is required, but is not set.")>>
        ELSE IF classified = "INVALID"
        THEN <<TypeError(TypeText(e.type.value))>>
        ELSE <<>>
  IN  [jointName |-> namePair.value,
       parentLinkName |-> parent,
       childLinkName |-> child,
       pose |-> loaded.pose,
       poseFrame |-> DefaultPoseFrame(loaded.frame, child),
       type |-> newType,
       errors |-> nameErrors \o parentErrors \o childErrors \o typeErrors]

\* the name under which Load looks up the vertex it wires the joint to
MutParentFrameName(f) == f.parentLinkName
ParentFrameName(f) == f.poseFrame

\* the two AddEdge calls of Load, between the vertex whose id is
\* parentVertices.begin()->first and the joint's
Connect(G, parentId, id) ==
  AddEdge(AddEdge(G, parentId, id, -1), id, parentId, 1)

\* the graph the joint holds after a Load that was given graph g
MutHeldGraph(g) == frameGraph
HeldGraph(g) == g

\* the graphs once the joint holds graph g: the constructor's graph is
\* destroyed when the joint, its only owner, lets go of it
Release(gs, g) == IF g = OwnGraph THEN gs ELSE [gs EXCEPT !.own = EmptyGraph]

\* the error of a Load without frame graph
MutNoGraphErrors == <<>>
NoGraphErrors ==
  <<Error("FUNCTION_ARGUMENT_MISSING",
          "A frame graph is required to compute pose information.")>>

\* the fields Load assigns from the element
AssignFields(f) ==
  /\ parentLinkName' = f.parentLinkName
  /\ childLinkName' = f.childLinkName
  /\ pose' = f.pose
  /\ poseFrame' = f.poseFrame
  /\ type' = f.type

\* Joint::Load(_sdf, _frameGraph)
Load(e, g) ==
  /\ ~aborted
  /\ g # NullGraph => Len(graphs[g].verts) < MaxVertices
  /\ IF ~KindMatches(e)
     THEN /\ call' = [Call("Load") EXCEPT
                        !.element = e, !.graph = g,
                        !.errors = <<Error("ELEMENT_INCORRECT_TYPE",
                                           "Attempting to load a Joint, but the provided SDF element is not a <joint>.")>>]
          /\ UNCHANGED <<parentLinkName, childLinkName, type, pose, poseFrame,
                         frameGraph, frameVertexId, graphs, noGraphLoad,
                         aborted>>
     ELSE LET f == ReadElement(e) IN
          /\ AssignFields(f)
          /\ IF g # NullGraph
             THEN LET id == NextVertexId(graphs[g])
                      G1 == AddVertex(graphs[g], f.jointName, Matrix4d(f.pose))
                      parentVertices == Vertices(G1, ParentFrameName(f))
                  IN  /\ frameVertexId' = id
                      /\ noGraphLoad' = FALSE
                      /\ IF parentVertices # {}
                         THEN /\ graphs' = Release(
                                   [graphs EXCEPT
                                      ![g] = Connect(G1, First(parentVertices), id)],
                                   HeldGraph(g))
                              /\ frameGraph' = HeldGraph(g)
                              /\ call' = [Call("Load") EXCEPT
                                            !.element = e, !.graph = g,
                                            !.errors = f.errors]
                              /\ UNCHANGED aborted
                         ELSE \* parentVertices.begin() is end(): reading its
                              \* first is undefined.  The process aborts, or
                              \* the read gives some id u, of a vertex or of
                              \* none (both reads are of the same object, which
                              \* nothing writes in between).
                              \/ \E u \in 0 .. Len(G1.verts) :
                                   /\ graphs' = Release(
                                        [graphs EXCEPT ![g] = Connect(G1, u, id)],
                                        HeldGraph(g))
                                   /\ frameGraph' = HeldGraph(g)
                                   /\ call' = [Call("Load") EXCEPT
                                                 !.element = e, !.graph = g,
                                                 !.errors = f.errors]
                                   /\ UNCHANGED aborted
                              \/ /\ graphs' = [graphs EXCEPT ![g] = G1]
                                 /\ aborted' = TRUE
                                 /\ call' = [Call("Load") EXCEPT
                                               !.element = e, !.graph = g]
                                 /\ UNCHANGED frameGraph
             ELSE /\ call' = [Call("Load") EXCEPT
                                !.element = e,
                                !.errors = f.errors \o NoGraphErrors]
                  /\ noGraphLoad' = TRUE
                  /\ UNCHANGED <<frameGraph, frameVertexId, graphs, aborted>>

-----------------------------------------------------------------------------
(* The accessors *)

\* the fields of the joint other than the frame graph
fields == <<parentLinkName, childLinkName, type, pose, poseFrame, frameGraph,
            frameVertexId>>

\* SetName adding a vertex of that name in place of renaming its own
MutSetName(n) ==
  /\ ~aborted
  /\ graphs' = [graphs EXCEPT
                  ![frameGraph] =
                    AddVertex(@, n, VertexFromId(@, frameVertexId).data)]
  /\ call' = Call("SetName")
  /\ UNCHANGED <<fields, noGraphLoad, aborted>>

\* Joint::SetName(_name)
SetName(n) ==
  /\ ~aborted
  /\ graphs' = [graphs EXCEPT
                  ![frameGraph] = SetVertexName(@, frameVertexId, n)]
  /\ call' = Call("SetName")
  /\ UNCHANGED <<fields, noGraphLoad, aborted>>

\* Joint::SetType(_jointType)
SetType(t) ==
  /\ ~aborted
  /\ type' = t
  /\ call' = Call("SetType")
  /\ UNCHANGED <<parentLinkName, childLinkName, pose, poseFrame, frameGraph,
                 frameVertexId, graphs, noGraphLoad, aborted>>

\* Joint::SetParentLinkName(_name)
SetParentLinkName(n) ==
  /\ ~aborted
  /\ parentLinkName' = n
  /\ call' = Call("SetParentLinkName")
  /\ UNCHANGED <<childLinkName, type, pose, poseFrame, frameGraph,
                 frameVertexId, graphs, noGraphLoad, aborted>>

\* SetChildLinkName moving the pose frame along with the child link name
MutSetChildLinkName(n) ==
  /\ ~aborted
  /\ childLinkName' = n
  /\ poseFrame' = n
  /\ call' = Call("SetChildLinkName")
  /\ UNCHANGED <<parentLinkName, type, pose, frameGraph, frameVertexId,
                 graphs, noGraphLoad, aborted>>

\* Joint::SetChildLinkName(_name)
SetChildLinkName(n) ==
  /\ ~aborted
  /\ childLinkName' = n
  /\ call' = Call("SetChildLinkName")
  /\ UNCHANGED <<parentLinkName, type, pose, poseFrame, frameGraph,
                 frameVertexId, graphs, noGraphLoad, aborted>>

\* SetPose storing the pose without writing the vertex
MutSetPose(p) ==
  /\ ~aborted
  /\ pose' = p
  /\ call' = Call("SetPose")
  /\ UNCHANGED <<parentLinkName, childLinkName, type, poseFrame, frameGraph,
                 frameVertexId, graphs, noGraphLoad, aborted>>

\* Joint::SetPose(_pose)
SetPose(p) ==
  /\ ~aborted
  /\ graphs' = [graphs EXCEPT
                  ![frameGraph] =
                    SetVertexData(@, frameVertexId, Matrix4d(p))]
  /\ pose' = p
  /\ call' = Call("SetPose")
  /\ UNCHANGED <<parentLinkName, childLinkName, type, poseFrame, frameGraph,
                 frameVertexId, noGraphLoad, aborted>>

\* Joint::SetPoseFrame(_frame)
SetPoseFrame(f) ==
  /\ ~aborted
  /\ IF f = ""
     THEN /\ call' = [Call("SetPoseFrame") EXCEPT !.ok = FALSE]
          /\ UNCHANGED poseFrame
     ELSE /\ poseFrame' = f
          /\ call' = Call("SetPoseFrame")
  /\ UNCHANGED <<parentLinkName, childLinkName, type, pose, frameGraph,
                 frameVertexId, graphs, noGraphLoad, aborted>>

\* Joint::PoseInFrame(_frame)
PoseInFrame(f) ==
  /\ ~aborted
  /\ call' = [Call("PoseInFrame") EXCEPT
                !.result = poseInFrame(Name, IF f = "" THEN PoseFrame ELSE f,
                                       graphs[frameGraph])]
  /\ UNCHANGED <<fields, graphs, noGraphLoad, aborted>>

\* one call on the joint, with arguments from the sets of `in'
Step(in) ==
  \/ \E e \in in.elements, g \in GraphArgs : Load(e, g)
  \/ \E n \in in.names : SetName(n)
  \/ \E t \in in.types : SetType(t)
  \/ \E n \in in.parents : SetParentLinkName(n)
  \/ \E n \in in.children : SetChildLinkName(n)
  \/ \E p \in in.poses : SetPose(p)
  \/ \E f \in in.frames : SetPoseFrame(f)
  \/ \E f \in in.targets : PoseInFrame(f)

Next ==
  Step([elements |-> Elements, names |-> {"a"}, types |-> {"INVALID"},
        parents |-> {"b"}, children |-> {"b"}, poses |-> {PoseZero},
        frames |-> {"", "a"}, targets |-> {""}])

Spec == Init /\ [][Next]_vars

PoseNext ==
  Step([elements |-> PoseElements, names |-> {"b"}, types |-> {"BALL"},
        parents |-> {"a"}, children |-> {"a"}, poses |-> Poses,
        frames |-> {"", "a"}, targets |-> {"", "a", "b"}])

PoseSpec == Init /\ [][PoseNext]_vars

TypeNext ==
  Step([elements |-> TypeElements, names |-> {"a"},
        types |-> {"INVALID", "SCREW"}, parents |-> {"a"},
        children |-> {"b"}, poses |-> {PoseZero}, frames |-> {"", "b"},
        targets |-> {""}])

TypeSpec == Init /\ [][TypeNext]_vars

-----------------------------------------------------------------------------
(* Properties *)

\* the edge (from, to) with that sign is in the graph
HasEdge(G, from, to, data) ==
  \E i \in DOMAIN G.edges :
    G.edges[i] = [from |-> from, to |-> to, data |-> data]

\* the last call was a Load that passed the kind check and returned
LoadReturned ==
  /\ call.op = "Load"
  /\ call.element.kind = "joint"
  /\ ~aborted

\* the vertices of graph G that were registered under `name' before the
\* joint's vertex was inserted
Earlier(G, name) == {v \in Vertices(G, name) : v < frameVertexId}

\* the graph holds both edges between vertex v and the joint's vertex
EdgePair(G, v) ==
  /\ HasEdge(G, v, frameVertexId, -1)
  /\ HasEdge(G, frameVertexId, v, 1)

\* C1: a Load of an element that is not a <joint> returns exactly one error,
\* ELEMENT_INCORRECT_TYPE, and changes no vertex and no edge of any graph,
\* whatever the joint and the graph were before.
C1_MismatchLeavesGraph ==
  [][ \A g \in GraphArgs :
        Load(LinkElement, g) =>
          /\ Len(call'.errors) = 1
          /\ call'.errors[1].code = "ELEMENT_INCORRECT_TYPE"
          /\ graphs' = graphs ]_vars

\* C1 witness: a mismatched element was loaded on a joint that is wired
\* into the document's graph
C1_Witness ==
  /\ call.op = "Load"
  /\ call.graph = DocGraph
  /\ ErrorCodes(call.errors) = {"ELEMENT_INCORRECT_TYPE"}
  /\ frameGraph = DocGraph
  /\ graphs[DocGraph].edges # <<>>

LinkSetterCalled(c) ==
  c.op \in {"SetPoseFrame", "SetChildLinkName", "SetParentLinkName"}

\* C3 as stated: a Load without frame graph returns the error
\* FUNCTION_ARGUMENT_MISSING, and every PoseInFrame query after it, whatever
\* setters were called in between, fails and returns no pose.
C3_QueriesFailWithoutGraph ==
  /\ (LoadReturned /\ call.graph = NullGraph) =>
       "FUNCTION_ARGUMENT_MISSING" \in ErrorCodes(call.errors)
  /\ (noGraphLoad /\ call.op = "PoseInFrame") => call.result.status # "Pose"

\* C3 amended: a Load without frame graph returns the error
\* FUNCTION_ARGUMENT_MISSING and leaves the joint with the frame graph and
\* the vertex it held before; a PoseInFrame query after it is answered on
\* that graph, and returns the identity pose when the target frame is the
\* name of the joint's own vertex.
C3_NoGraphKeepsGraph ==
  [][ /\ (LoadReturned' /\ call'.graph = NullGraph) =>
           /\ "FUNCTION_ARGUMENT_MISSING" \in ErrorCodes(call'.errors)
           /\ frameGraph' = frameGraph
           /\ frameVertexId' = frameVertexId
           /\ graphs' = graphs
      /\ \A f \in {"", "a", "b"} :
           (/\ noGraphLoad
            /\ PoseInFrame(f)
            /\ (IF f = "" THEN PoseFrame ELSE f) = Name) =>
             call'.result = PoseResult(PoseZero) ]_vars

\* C3 witness: after a Load without frame graph, a query on the graph of an
\* earlier Load returned a pose
C3_Witness ==
  /\ noGraphLoad
  /\ frameGraph = DocGraph
  /\ graphs[DocGraph].edges # <<>>
  /\ call.op = "PoseInFrame"
  /\ call.result.status = "Pose"

\* C4: Load always returns, and a lookup of the pose frame that finds no
\* vertex is reported by an error of the returned list.
C4_LoadAlwaysReturns ==
  /\ ~aborted
  /\ (/\ LoadReturned
      /\ call.graph = DocGraph
      /\ Vertices(graphs[DocGraph], poseFrame) = {}) =>
       \E i \in DOMAIN call.errors :
         call.errors[i].code \notin
           {"ATTRIBUTE_MISSING", "ELEMENT_MISSING", "ATTRIBUTE_INVALID"}

EqualIgnoringCase(s, t) ==
  /\ Len(s) = Len(t)
  /\ \A i \in DOMAIN s : ToLower(s[i]) = ToLower(t[i])

\* the type names the string s matches when case is ignored
MatchedTypes(s) ==
  {JointTypeNames[i].type :
     i \in {j \in DOMAIN JointTypeNames :
              EqualIgnoringCase(s, JointTypeNames[j].name)}}

\* C6: a Load of a joint element whose type string matches none of the nine
\* type names, case ignored, leaves the type INVALID whatever it was before
\* and returns an ATTRIBUTE_INVALID error; a type string that matches a name
\* sets that type and returns no such error.
C6_TypeClassified ==
  [][ (LoadReturned' /\ call'.element.type.present) =>
        LET matched == MatchedTypes(call'.element.type.value)
        IN  IF matched = {}
            THEN /\ Type' = "INVALID"
                 /\ "ATTRIBUTE_INVALID" \in ErrorCodes(call'.errors)
            ELSE /\ matched = {Type'}
                 /\ "ATTRIBUTE_INVALID" \notin ErrorCodes(call'.errors) ]_vars

\* C6 witness: a Load has replaced a valid type by INVALID and returned the
\* error with the lower-cased text
C6_Witness ==
  /\ LoadReturned
  /\ Type = "INVALID"
  /\ \E i \in DOMAIN call.errors :
       /\ call.errors[i].code = "ATTRIBUTE_INVALID"
       /\ call.errors[i].text = <<"r", "e", "v", "o", "l", "t">>
  /\ frameGraph = DocGraph

\* the graph the joint holds
Held == graphs[frameGraph]

\* C7 as stated: after SetName(n) on a joint whose vertex had another name,
\* no vertex of the graph has the old name, the joint's vertex is the only one
\* of the new name, and it keeps its id.
C7_RenameExactlyOne ==
  [][ \A n \in Names :
        (SetName(n) /\ Name # n) =>
          /\ Vertices(Held', Name) = {}
          /\ Vertices(Held', n) = {frameVertexId}
          /\ frameVertexId' = frameVertexId ]_vars

\* C7 amended: after SetName(n) on a joint whose vertex had another name,
\* the joint's vertex keeps its id, is no longer among the vertices of the
\* old name and is among those of the new name, and every other vertex keeps
\* its name (so the old name is left without vertex, and the new name with
\* this vertex alone, only when no other vertex has these names).
C7_RenameMovesVertex ==
  [][ \A n \in Names :
        (SetName(n) /\ Name # n) =>
          /\ frameVertexId' = frameVertexId
          /\ frameGraph' = frameGraph
          /\ VertexIds(Held') = VertexIds(Held)
          /\ Vertices(Held', Name) = Vertices(Held, Name) \ {frameVertexId}
          /\ Vertices(Held', n) = Vertices(Held, n) \cup {frameVertexId} ]_vars

\* C7 witness: the joint's vertex was renamed to a name another vertex of
\* the document's graph has
C7_Witness ==
  /\ call.op = "SetName"
  /\ frameGraph = DocGraph
  /\ Cardinality(Vertices(Held, Name)) > 1

\* C8: the joint's vertex id is the id of a vertex of the graph the joint
\* holds, in every state in which the joint can be called.
C8_VertexIdResolves == ~aborted => HasVertex(Held, frameVertexId)

\* C8 witness: a Load without frame graph on a joint that holds the second
\* vertex of the document's graph
C8_Witness ==
  /\ LoadReturned
  /\ call.graph = NullGraph
  /\ frameGraph = DocGraph
  /\ frameVertexId = 1
  /\ graphs[OwnGraph] = EmptyGraph

\* C9: SetParentLinkName and SetChildLinkName change the parent or child
\* link name and nothing else of the joint or of the graphs.
C9_LinkNamesOnly ==
  [][ /\ \A n \in Names :
           SetParentLinkName(n) =>
             /\ parentLinkName' = n
             /\ UNCHANGED <<childLinkName, type, pose, poseFrame, frameGraph,
                            frameVertexId, graphs>>
      /\ \A n \in Names :
           SetChildLinkName(n) =>
             /\ childLinkName' = n
             /\ UNCHANGED <<parentLinkName, type, pose, poseFrame, frameGraph,
                            frameVertexId, graphs>> ]_vars

\* C9 witness: the child link name was set on a joint wired at Load to the
\* vertex of another name
C9_Witness ==
  /\ call.op = "SetChildLinkName"
  /\ frameGraph = DocGraph
  /\ childLinkName # PoseFrame
  /\ Earlier(Held, PoseFrame) # {}
  /\ EdgePair(Held, First(Earlier(Held, PoseFrame)))

\* the payload of the joint's vertex is the transform of its pose
PayloadAgrees == VertexFromId(Held, frameVertexId).data = Matrix4d(Pose)

====
